---------------------------- MODULE Spec2Model ----------------------------
(***************************************************************************)
(* Model of apod_downloader.py: the APOD cache reconciler.                 *)
(*                                                                         *)
(* One invocation of the script is a process that walks through the module *)
(* level code and main().  The persisted store (apod.json), the image and  *)
(* audio files and the per-date directories are shared between             *)
(* invocations.  Spec runs one invocation at a time; SpecConc lets two     *)
(* invocations run at the same time.                                       *)
(*                                                                         *)
(* Strings that the code parses or compares are sequences of one-character *)
(* strings; a URL is the sequence of its path segments, a file name is the *)
(* pair <<stem, suffix>> and a path is [dir, name].                        *)
(***************************************************************************)
EXTENDS Integers, Sequences, FiniteSets, TLC

\* Number of invocations started in one behaviour.
MaxRuns == 3

Procs == {1, 2}

----------------------------------------------------------------------------
(* Python values *)

\* None, "" and a missing value: all are falsy in the code's tests.
None == <<>>

\* dict.get(k, default)
Get(d, k, default) == IF k \in DOMAIN d THEN d[k] ELSE default

\* a or b
Or(a, b) == IF a # None THEN a ELSE b

\* d[k] = v on a copy of d
Put(d, k, v) == (k :> v) @@ d

----------------------------------------------------------------------------
(* Strings and dates *)

\* The characters of the date strings, in code point order ('-' < '0' < '9').
Alphabet == <<"-", "0", "1", "2", "3", "4", "5", "6", "7", "8", "9">>

Ord(c) == CHOOSE i \in 1..Len(Alphabet) : Alphabet[i] = c

IsDigit(c) == c \in {Alphabet[i] : i \in 2..Len(Alphabet)}

DigitVal(c) == Ord(c) - 2

\* str < str: Python compares strings by code point, a proper prefix first.
RECURSIVE StrLess(_, _)
StrLess(s, t) ==
    IF s = <<>> THEN t # <<>>
    ELSE IF t = <<>> THEN FALSE
    ELSE IF Head(s) # Head(t) THEN Ord(Head(s)) < Ord(Head(t))
    ELSE StrLess(Tail(s), Tail(t))

\* str.split("-")
RECURSIVE SplitDash(_, _, _)
SplitDash(s, cur, acc) ==
    IF s = <<>> THEN Append(acc, cur)
    ELSE IF Head(s) = "-" THEN SplitDash(Tail(s), <<>>, Append(acc, cur))
    ELSE SplitDash(Tail(s), Append(cur, Head(s)), acc)

AllDigits(f) == \A i \in 1..Len(f) : IsDigit(f[i])

RECURSIVE ToInt(_, _)
ToInt(f, n) == IF f = <<>> THEN n ELSE ToInt(Tail(f), 10 * n + DigitVal(Head(f)))

IsLeap(y) == (y % 4 = 0 /\ y % 100 # 0) \/ y % 400 = 0

DaysIn(y, m) ==
    IF m = 2 THEN (IF IsLeap(y) THEN 29 ELSE 28)
    ELSE IF m \in {4, 6, 9, 11} THEN 30 ELSE 31

\* datetime.strptime(date_str, "%Y-%m-%d"): <<y, m, d>>, or None for ValueError.
\* %Y takes exactly four digits; %m and %d take one or two digits, so a date
\* without zero padding ("2024-2-01") parses.
Strptime(date_str) ==
    LET f == SplitDash(date_str, <<>>, <<>>) IN
    IF Len(f) # 3 THEN None
    ELSE IF ~(AllDigits(f[1]) /\ AllDigits(f[2]) /\ AllDigits(f[3])) THEN None
    ELSE IF Len(f[1]) # 4 \/ Len(f[2]) \notin {1, 2} \/ Len(f[3]) \notin {1, 2} THEN None
    ELSE LET y == ToInt(f[1], 0)
             m == ToInt(f[2], 0)
             d == ToInt(f[3], 0)
         IN IF y >= 1 /\ m \in 1..12 /\ d >= 1 /\ d <= DaysIn(y, m)
            THEN <<y, m, d>> ELSE None

\* Every string passes for a date.
is_valid_date_always(date_str) == TRUE

is_valid_date(date_str) == Strptime(date_str) # None

\* datetime < datetime on the parsed dates
DateLess(a, b) ==
    \/ a[1] < b[1]
    \/ a[1] = b[1] /\ a[2] < b[2]
    \/ a[1] = b[1] /\ a[2] = b[2] /\ a[3] < b[3]

\* sorted(data.items()): the (key, value) tuples compare by key first, and the
\* keys of a dict are distinct, so the order is the string order of the keys.
RECURSIVE SortedKeys(_)
SortedKeys(S) ==
    IF S = {} THEN <<>>
    ELSE LET m == CHOOSE x \in S : \A y \in S \ {x} : StrLess(x, y)
         IN <<m>> \o SortedKeys(S \ {m})

SortedItems(data) == SortedKeys(DOMAIN data)

\* sorted(keys, key=lambda d: datetime.strptime(d, "%Y-%m-%d")): ascending by
\* the parsed date.  (Keys that parse to the same day would keep the order of
\* the dict; the keys of the model parse to different days.)
RECURSIVE SortedByDate(_)
SortedByDate(S) ==
    IF S = {} THEN <<>>
    ELSE LET m == CHOOSE x \in S :
                    \A y \in S \ {x} : ~DateLess(Strptime(y), Strptime(x))
         IN <<m>> \o SortedByDate(S \ {m})

\* list.index(x), counted from 0
IndexOf(l, x) == (CHOOSE i \in 1..Len(l) : l[i] = x) - 1

\* The date arguments of the command line.
D_OCT == <<"2", "0", "2", "4", "-", "1", "0", "-", "0", "1">>
D_FEB == <<"2", "0", "2", "4", "-", "2", "-", "0", "1">>
D_DMY == <<"0", "1", "-", "0", "1", "-", "2", "0", "2", "4">>
D_FEB30 == <<"2", "0", "2", "4", "-", "0", "2", "-", "3", "0">>
D_MAR == <<"2", "0", "2", "4", "-", "0", "3", "-", "1", "5">>
TODAY == <<"_", "_", "T", "O", "D", "A", "Y", "_", "_">>

\* datetime.now(timezone.utc).strftime("%Y-%m-%d"): zero padded.
Now == D_OCT

DateArgs == {None, TODAY, D_OCT, D_FEB, D_DMY, D_FEB30}

----------------------------------------------------------------------------
(* Paths, URLs and the remote metadata *)

\* os.path.basename(urlparse(image_url).path): the last path segment.
Basename(url) == url[Len(url)]

\* save_dir / filename, with save_dir = APOD_DIR / date_str
SavePath(date_str, image_url) == [dir |-> date_str, name |-> Basename(image_url)]

\* The audio path is the image path, suffix and all.
build_mp3_path_keeping_suffix(image_path) == image_path

\* Path(image_path).with_suffix(".mp3")
build_mp3_path_for_image(image_path) ==
    [dir |-> image_path.dir, name |-> <<image_path.name[1], ".mp3">>]

U_STD == <<"apod.nasa.gov", "image", <<"pic", ".jpg">>>>
U_HD == <<"apod.nasa.gov", "image", <<"pic_hd", ".jpg">>>>
U_VID == <<"youtube.com", "embed", <<"clip", "">>>>

\* What the metadata service can answer for a date.
MetaHD == [media_type |-> "image", title |-> "T", explanation |-> "E",
           url |-> U_STD, hdurl |-> U_HD]
MetaStd == [media_type |-> "image", title |-> "T", explanation |-> "E",
            url |-> U_STD]
MetaVideo == [media_type |-> "video", title |-> "T", explanation |-> "E",
              url |-> U_VID]
MetaNoUrl == [media_type |-> "image", title |-> "T", explanation |-> "E"]

Metas == {MetaHD, MetaStd, MetaVideo, MetaNoUrl}

----------------------------------------------------------------------------
(* State *)

VARIABLES
    store,        \* apod.json: date_str -> entry (a missing file loads as {})
    files,        \* image and audio files: path -> "complete" or "partial"
    dirs,         \* the per-date directories made under APOD_DIR
    pc,           \* where each invocation is
    args,         \* its command line and environment
    date_str,     \* main's date_str
    data,         \* main's data
    apod_data,    \* main's apod_data
    image_url,    \* main's image_url
    image_path,   \* main's image_path
    mp3_path,     \* main's mp3_path
    ea,           \* the running ensure_apod_audio call: who called, force
    callee_data,  \* the data of update_apod_json or of ensure_apod_audio
    exit_code,    \* the exit status of the process, -1 while it runs
    outcome,      \* how the invocation ended
    reports,      \* the messages the invocation printed
    listed,       \* the dates list_cached_apods printed, in order
    played,       \* what play_audio_nonblocking did
    bg,           \* what set_background did
    viewer,       \* view_cosmowall_layout: its locals and the last event
    store0,       \* history: the store when the invocation started
    files0,       \* history: the files when the invocation started
    nFetch,       \* history: calls of fetch_apod_metadata in this invocation
    nDownload,    \* history: calls of download_image in this invocation
    nSave,        \* history: calls of save_apod_json in this invocation
    calls,        \* history: the ensure_apod_audio calls of this invocation
    rejected,     \* history: dates whose metadata was not an image
    runs          \* invocations started so far

shared == <<store, files, dirs>>
frame == <<args, date_str, data, apod_data, image_url, image_path, mp3_path,
           ea, callee_data>>
result == <<exit_code, outcome, reports, listed, played, viewer, bg>>
history == <<store0, files0, nFetch, nDownload, nSave, calls, rejected>>
vars == <<shared, pc, frame, result, history, runs>>

Upd(f, p, v) == [f EXCEPT ![p] = v]

\* The command lines.  A flag that the code never reads on the path its
\* other arguments select is left off: nothing but NASA_API_KEY is read
\* without the key, --list-cached returns before any other flag is read, a
\* missing or invalid date exits before any flag is read, and --force-audio is
\* read only under --make-audio.  --today comes without the optional steps,
\* which the same date given in full covers.  The viewer flags are off.
ArgSets ==
    { a \in [api_key : BOOLEAN, list_cached : BOOLEAN, date_str : DateArgs,
             make_audio : BOOLEAN, force_audio : BOOLEAN,
             play_audio : BOOLEAN, set_bg : BOOLEAN,
             show_cosmowall : {FALSE}, loop : {FALSE}] :
        /\ (a.force_audio => a.make_audio)
        /\ (~a.api_key \/ a.list_cached) =>
              /\ a.date_str = None
              /\ ~a.make_audio /\ ~a.play_audio /\ ~a.set_bg
        /\ ~a.api_key => ~a.list_cached
        /\ a.date_str \in {None, TODAY, D_DMY, D_FEB30} =>
              ~a.make_audio /\ ~a.play_audio /\ ~a.set_bg }

\* The command lines of two invocations that run at the same time: each
\* resolves a date and asks for no optional step.
ConcArgSets ==
    { a \in ArgSets :
        /\ a.api_key /\ ~a.list_cached
        /\ a.date_str \in {D_OCT, D_FEB}
        /\ ~a.make_audio /\ ~a.play_audio /\ ~a.set_bg }

\* The dates given with the viewer flags.
ViewDates == {D_OCT, D_FEB, D_MAR}

\* The command lines with --cosmowall --loop: the date is resolved, narrated
\* under --make-audio (given with one of the dates), and the cycling viewer is
\* started on it.
ViewArgSets ==
    { a \in [api_key : {TRUE}, list_cached : {FALSE}, date_str : ViewDates,
             make_audio : BOOLEAN, force_audio : {FALSE},
             play_audio : {FALSE}, set_bg : {FALSE},
             show_cosmowall : {TRUE}, loop : {TRUE}] :
        a.make_audio => a.date_str = D_OCT }

NoArgs == [api_key |-> FALSE, list_cached |-> FALSE, date_str |-> None,
           make_audio |-> FALSE, force_audio |-> FALSE,
           play_audio |-> FALSE, set_bg |-> FALSE,
           show_cosmowall |-> FALSE, loop |-> FALSE]

\* The locals of view_cosmowall_layout (current_index counts from 0), and the
\* history of the last event: which it was, the current_index it found, and
\* what it did about the audio.
NoViewer == [date_list |-> <<>>, current_index |-> 0, running |-> FALSE,
             date_str |-> None, audio |-> "none", last |-> "none", was |-> 0]

NoCall == [caller |-> "none", force |-> FALSE]

Init ==
    /\ store = <<>>
    /\ files = <<>>
    /\ dirs = {}
    /\ pc = [p \in Procs |-> "idle"]
    /\ args = [p \in Procs |-> NoArgs]
    /\ date_str = [p \in Procs |-> None]
    /\ data = [p \in Procs |-> <<>>]
    /\ apod_data = [p \in Procs |-> <<>>]
    /\ image_url = [p \in Procs |-> None]
    /\ image_path = [p \in Procs |-> None]
    /\ mp3_path = [p \in Procs |-> None]
    /\ ea = [p \in Procs |-> NoCall]
    /\ callee_data = [p \in Procs |-> <<>>]
    /\ exit_code = [p \in Procs |-> -1]
    /\ outcome = [p \in Procs |-> "none"]
    /\ reports = [p \in Procs |-> {}]
    /\ listed = [p \in Procs |-> <<>>]
    /\ played = [p \in Procs |-> "no"]
    /\ bg = [p \in Procs |-> "untouched"]
    /\ viewer = [p \in Procs |-> NoViewer]
    /\ store0 = [p \in Procs |-> <<>>]
    /\ files0 = [p \in Procs |-> <<>>]
    /\ nFetch = [p \in Procs |-> 0]
    /\ nDownload = [p \in Procs |-> 0]
    /\ nSave = [p \in Procs |-> 0]
    /\ calls = [p \in Procs |-> <<>>]
    /\ rejected = {}
    /\ runs = 0

----------------------------------------------------------------------------
(* Leaving main, and entering and leaving ensure_apod_audio *)

\* sys.exit(code), a return from main (code 0), or an exception that nothing
\* catches: the interpreter prints the traceback and exits with status 1.
Exit(p, code, why) ==
    /\ pc' = Upd(pc, p, "done")
    /\ exit_code' = Upd(exit_code, p, code)
    /\ outcome' = Upd(outcome, p, why)

Say(p, msg) == reports' = Upd(reports, p, reports[p] \cup {msg})

LastCall(p) == calls[p][Len(calls[p])]

SetLast(p, c) == [calls EXCEPT ![p][Len(calls[p])] = c]

\* ensure_apod_audio(date_str, entry=data[date_str], voice_id, force)
Call(p, caller, force) ==
    /\ pc' = Upd(pc, p, "ea_begin")
    /\ ea' = Upd(ea, p, [caller |-> caller, force |-> force])
    /\ calls' = Upd(calls, p, Append(calls[p],
                    [caller |-> caller, force |-> force, store_was |-> store,
                     existed |-> FALSE, entry_ok |-> FALSE, store_ok |-> FALSE,
                     synth |-> 0, saves |-> 0, result |-> "running"]))

\* return mp3_path, to line 695 (make audio) or to line 709 (play audio)
Return(p, path, c) ==
    /\ calls' = SetLast(p, [c EXCEPT !.result = "returned"])
    /\ ea' = Upd(ea, p, NoCall)
    /\ mp3_path' = Upd(mp3_path, p, path)
    /\ IF ea[p].caller = "make"
       THEN pc' = Upd(pc, p, "play_audio") /\ Say(p, "Audio cached")
       ELSE pc' = Upd(pc, p, "play_launch") /\ UNCHANGED reports
    /\ UNCHANGED <<exit_code, outcome>>

\* No call is in a try/except.
CaughtNever(caller) == FALSE

\* main, lines 688-697 and 703-708: the call under --make-audio is in a
\* try/except Exception, the call under --play-audio is not.
Caught(caller) == caller = "make"

\* An exception leaves ensure_apod_audio.
Raise(p, kind, c) ==
    /\ calls' = SetLast(p, [c EXCEPT !.result = "raised"])
    /\ ea' = Upd(ea, p, NoCall)
    /\ IF Caught(ea[p].caller)
       THEN /\ pc' = Upd(pc, p, "play_audio")
            /\ Say(p, "Failed to generate audio")
            /\ UNCHANGED <<exit_code, outcome>>
       ELSE Exit(p, 1, kind) /\ UNCHANGED reports
    /\ UNCHANGED mp3_path

----------------------------------------------------------------------------
(* The invocation *)

\* A process starts: lines 16-19 run at import, before main.
StartWith(p, A) ==
    /\ pc[p] \in {"idle", "done"}
    /\ runs < MaxRuns
    /\ runs' = runs + 1
    /\ \E a \in A :
        /\ args' = Upd(args, p, a)
        /\ date_str' = Upd(date_str, p, a.date_str)
        /\ IF a.api_key
           THEN /\ pc' = Upd(pc, p, "main")
                /\ exit_code' = Upd(exit_code, p, -1)
                /\ outcome' = Upd(outcome, p, "none")
                /\ reports' = Upd(reports, p, {})
           ELSE /\ Exit(p, 1, "no_api_key")
                /\ reports' = Upd(reports, p, {"NASA_API_KEY not set"})
    /\ data' = Upd(data, p, <<>>)
    /\ apod_data' = Upd(apod_data, p, <<>>)
    /\ image_url' = Upd(image_url, p, None)
    /\ image_path' = Upd(image_path, p, None)
    /\ mp3_path' = Upd(mp3_path, p, None)
    /\ ea' = Upd(ea, p, NoCall)
    /\ callee_data' = Upd(callee_data, p, <<>>)
    /\ listed' = Upd(listed, p, <<>>)
    /\ played' = Upd(played, p, "no")
    /\ bg' = Upd(bg, p, "untouched")
    /\ viewer' = Upd(viewer, p, NoViewer)
    /\ store0' = Upd(store0, p, store)
    /\ files0' = Upd(files0, p, files)
    /\ nFetch' = Upd(nFetch, p, 0)
    /\ nDownload' = Upd(nDownload, p, 0)
    /\ nSave' = Upd(nSave, p, 0)
    /\ calls' = Upd(calls, p, <<>>)
    /\ UNCHANGED <<shared, rejected>>

Start(p) == StartWith(p, ArgSets)

StartView(p) == StartWith(p, ViewArgSets)

StartConc(p) == StartWith(p, ConcArgSets)

\* list_cached_apods
ListCached(p) ==
    /\ listed' = Upd(listed, p, SortedItems(store))
    /\ IF DOMAIN store = {} THEN Say(p, "No cached APODs found")
       ELSE UNCHANGED reports
    /\ Exit(p, 0, "listed")
    /\ UNCHANGED <<shared, date_str, data>>

\* The cache is never consulted.
InCacheNever(d, dat) == FALSE

\* main, line 658: date_str in data
InCache(d, dat) == d \in DOMAIN dat

\* main, lines 639-663
MainEntry(p) ==
    /\ pc[p] = "main"
    /\ LET d == IF date_str[p] = TODAY THEN Now ELSE date_str[p] IN
       IF args[p].list_cached THEN ListCached(p)
       ELSE IF d = None THEN
            /\ Exit(p, 1, "no_date")
            /\ Say(p, "Date is required")
            /\ UNCHANGED <<shared, date_str, data, listed>>
       ELSE IF ~is_valid_date(d) THEN
            /\ Exit(p, 1, "invalid_date")
            /\ Say(p, "error invalid date string")
            /\ UNCHANGED <<shared, date_str, data, listed>>
       ELSE /\ date_str' = Upd(date_str, p, d)
            /\ data' = Upd(data, p, store)
            /\ IF InCache(d, store)
               THEN /\ pc' = Upd(pc, p, "use_entry")
                    /\ UNCHANGED <<dirs, reports>>
               ELSE /\ pc' = Upd(pc, p, "fetch")
                    /\ dirs' = dirs \cup {d}
                    /\ Say(p, "not in cache, fetching")
            /\ UNCHANGED <<store, files, exit_code, outcome, listed>>
    /\ UNCHANGED <<args, apod_data, image_url, image_path, mp3_path, ea,
                   callee_data, played, viewer, bg, history, runs>>

\* fetch_apod_metadata answers with one of Metas, or raise_for_status raises.
Responses == Metas \cup {[error |-> "HTTPError"]}

\* The media type is not checked.
IsImageAlways(meta) == TRUE

\* main, lines 666-668: media_type == "image"
IsImage(meta) == Get(meta, "media_type", None) = "image"

\* The standard URL is preferred to the high-definition one.
ImageUrlStandardFirst(meta) == Or(Get(meta, "url", None), Get(meta, "hdurl", None))

\* main, line 673: apod_data.get("hdurl") or apod_data.get("url")
ImageUrl(meta) == Or(Get(meta, "hdurl", None), Get(meta, "url", None))

\* main, lines 665-676
Fetch(p) ==
    /\ pc[p] = "fetch"
    /\ nFetch' = Upd(nFetch, p, nFetch[p] + 1)
    /\ \E r \in Responses :
        IF "error" \in DOMAIN r THEN
            /\ Exit(p, 1, "HTTPError")
            /\ UNCHANGED <<apod_data, image_url, reports, rejected>>
        ELSE
            /\ apod_data' = Upd(apod_data, p, r)
            /\ IF ~IsImage(r) THEN
                    /\ Exit(p, 0, "not_image")
                    /\ Say(p, "is not an image")
                    /\ rejected' = rejected \cup {date_str[p]}
                    /\ UNCHANGED image_url
               ELSE LET u == ImageUrl(r) IN
                    /\ image_url' = Upd(image_url, p, u)
                    /\ UNCHANGED rejected
                    /\ IF u = None
                       THEN Exit(p, 0, "no_url") /\ Say(p, "No image URL found")
                       ELSE /\ pc' = Upd(pc, p, "download")
                            /\ UNCHANGED <<exit_code, outcome, reports>>
    /\ UNCHANGED <<shared, args, date_str, data, image_path, mp3_path, ea,
                   callee_data, listed, played, viewer, bg, store0, files0, nDownload, nSave,
                   calls, runs>>

\* download_image: the GET fails and nothing is written, or the write fails
\* and a partial file stays at save_path, or the file is written whole.
DownloadResults == {"ok", "transport_error", "write_error"}

\* A failed write of the file is swallowed.
DownloadRaisesTransportOnly(res) == res = "transport_error"

\* download_image, lines 88-91: raise_for_status, open and write raise
DownloadRaises(res) == res # "ok"

\* main, line 678, and download_image
Download(p) ==
    /\ pc[p] = "download"
    /\ nDownload' = Upd(nDownload, p, nDownload[p] + 1)
    /\ LET save_path == SavePath(date_str[p], image_url[p]) IN
       \E res \in DownloadResults :
        /\ files' = CASE res = "ok" -> Put(files, save_path, "complete")
                       [] res = "transport_error" -> files
                       [] res = "write_error" -> Put(files, save_path, "partial")
        /\ IF DownloadRaises(res)
           THEN /\ Exit(p, 1, "DownloadError")
                /\ UNCHANGED image_path
           ELSE /\ image_path' = Upd(image_path, p, save_path)
                /\ pc' = Upd(pc, p, "update_load")
                /\ UNCHANGED <<exit_code, outcome>>
    /\ UNCHANGED <<store, dirs, args, date_str, data, apod_data, image_url,
                   mp3_path, ea, callee_data, reports, listed, played, viewer, bg,
                   store0, files0, nFetch, nSave, calls, rejected, runs>>

\* The entry update_apod_json builds.
NewEntry(meta, path) ==
    [title |-> Get(meta, "title", ""), explanation |-> Get(meta, "explanation", ""),
     url |-> Get(meta, "url", None), img |-> path]

\* The store is not loaded: the entry is set in an empty document.
UpdateLoadFresh(p) ==
    /\ pc[p] = "update_load"
    /\ callee_data' = Upd(callee_data, p,
            Put(<<>>, date_str[p], NewEntry(apod_data[p], image_path[p])))
    /\ pc' = Upd(pc, p, "update_save")
    /\ UNCHANGED <<shared, args, date_str, data, apod_data, image_url,
                   image_path, mp3_path, ea, result, history, runs>>

\* update_apod_json, lines 107-113: load the store, set the entry
UpdateLoad(p) ==
    /\ pc[p] = "update_load"
    /\ callee_data' = Upd(callee_data, p,
            Put(store, date_str[p], NewEntry(apod_data[p], image_path[p])))
    /\ pc' = Upd(pc, p, "update_save")
    /\ UNCHANGED <<shared, args, date_str, data, apod_data, image_url,
                   image_path, mp3_path, ea, result, history, runs>>

\* The save writes this invocation's entry into the store as it is now (a
\* per-key update) instead of replacing the document.
UpdateSaveMerging(p) ==
    /\ pc[p] = "update_save"
    /\ store' = Put(store, date_str[p], callee_data[p][date_str[p]])
    /\ data' = Upd(data, p, callee_data[p])
    /\ nSave' = Upd(nSave, p, nSave[p] + 1)
    /\ Say(p, "Saved APOD")
    /\ pc' = Upd(pc, p, "use_entry")
    /\ UNCHANGED <<files, dirs, args, date_str, apod_data, image_url,
                   image_path, mp3_path, ea, callee_data, exit_code, outcome,
                   listed, played, viewer, bg, store0, files0, nFetch, nDownload,
                   calls, rejected, runs>>

\* update_apod_json, lines 114-115, and main, lines 679-683
UpdateSave(p) ==
    /\ pc[p] = "update_save"
    /\ store' = callee_data[p]
    /\ data' = Upd(data, p, callee_data[p])
    /\ nSave' = Upd(nSave, p, nSave[p] + 1)
    /\ Say(p, "Saved APOD")
    /\ pc' = Upd(pc, p, "use_entry")
    /\ UNCHANGED <<files, dirs, args, date_str, apod_data, image_url,
                   image_path, mp3_path, ea, callee_data, exit_code, outcome,
                   listed, played, viewer, bg, store0, files0, nFetch, nDownload, calls,
                   rejected, runs>>

\* main, lines 685-694
UseEntry(p) ==
    /\ pc[p] = "use_entry"
    /\ IF "img" \notin DOMAIN data[p][date_str[p]] THEN
            /\ Exit(p, 1, "KeyError")
            /\ UNCHANGED <<image_path, ea, calls>>
       ELSE /\ image_path' = Upd(image_path, p, data[p][date_str[p]].img)
            /\ UNCHANGED <<exit_code, outcome>>
            /\ IF args[p].make_audio
               THEN Call(p, "make", args[p].force_audio)
               ELSE pc' = Upd(pc, p, "play_audio") /\ UNCHANGED <<ea, calls>>
    /\ UNCHANGED <<shared, args, date_str, data, apod_data, image_url,
                   mp3_path, callee_data, reports, listed, played, viewer, bg,
                   store0, files0, nFetch, nDownload, nSave, rejected, runs>>

----------------------------------------------------------------------------
(* ensure_apod_audio *)

\* The entry argument: main passes data[date_str], its own copy of the store.
entry(p) == data[p][date_str[p]]

\* An existing audio file is never reused.
ReuseNever(exists, force) == FALSE

\* line 45: mp3_path.exists() and not force
Reuse(exists, force) == exists /\ ~force

\* lines 39-59
EnsureBegin(p) ==
    /\ pc[p] = "ea_begin"
    /\ IF Get(entry(p), "img", None) = None THEN
            /\ Raise(p, "RuntimeError", LastCall(p))
       ELSE LET path == build_mp3_path_for_image(entry(p).img)
                c == [LastCall(p) EXCEPT
                        !.existed = path \in DOMAIN files,
                        !.entry_ok = (Get(entry(p), "mp3", None) = path),
                        !.store_ok = /\ date_str[p] \in DOMAIN store
                                     /\ Get(store[date_str[p]], "mp3", None) = path]
            IN
            IF Reuse(path \in DOMAIN files, ea[p].force) THEN
                IF Get(entry(p), "mp3", None) # path
                THEN /\ pc' = Upd(pc, p, "ea_heal_load")
                     /\ calls' = SetLast(p, c)
                     /\ UNCHANGED <<ea, mp3_path, exit_code, outcome, reports>>
                ELSE Return(p, path, c)
            ELSE /\ pc' = Upd(pc, p, "ea_synth")
                 /\ calls' = SetLast(p, c)
                 /\ UNCHANGED <<ea, mp3_path, exit_code, outcome, reports>>
    /\ UNCHANGED <<shared, args, date_str, data, apod_data, image_url,
                   image_path, callee_data, listed, played, viewer, bg, store0,
                   files0, nFetch, nDownload, nSave, rejected, runs>>

\* lines 48-49: data[date_str]["mp3"] = ... raises KeyError without the key
EnsureHealLoad(p) ==
    /\ pc[p] = "ea_heal_load"
    /\ IF date_str[p] \notin DOMAIN store THEN
            /\ Raise(p, "KeyError", LastCall(p))
            /\ UNCHANGED callee_data
       ELSE /\ callee_data' = Upd(callee_data, p,
                    Put(store, date_str[p],
                        Put(store[date_str[p]], "mp3",
                            build_mp3_path_for_image(entry(p).img))))
            /\ pc' = Upd(pc, p, "ea_heal_save")
            /\ UNCHANGED <<ea, mp3_path, exit_code, outcome, reports, calls>>
    /\ UNCHANGED <<shared, args, date_str, data, apod_data, image_url,
                   image_path, listed, played, viewer, bg, store0, files0, nFetch, nDownload,
                   nSave, rejected, runs>>

\* lines 50-51
EnsureHealSave(p) ==
    /\ pc[p] = "ea_heal_save"
    /\ store' = callee_data[p]
    /\ nSave' = Upd(nSave, p, nSave[p] + 1)
    /\ Return(p, build_mp3_path_for_image(entry(p).img),
              [LastCall(p) EXCEPT !.saves = @ + 1])
    /\ UNCHANGED <<files, dirs, args, date_str, data, apod_data, image_url,
                   image_path, callee_data, listed, played, viewer, bg, store0,
                   files0, nFetch, nDownload, rejected, runs>>

\* lines 62-64: Narratron writes the audio file, or raises and writes none
EnsureSynth(p) ==
    /\ pc[p] = "ea_synth"
    /\ LET c == [LastCall(p) EXCEPT !.synth = @ + 1] IN
       \E ok \in BOOLEAN :
        IF ok
        THEN /\ files' = Put(files, build_mp3_path_for_image(entry(p).img), "complete")
             /\ pc' = Upd(pc, p, "ea_load")
             /\ calls' = SetLast(p, c)
             /\ UNCHANGED <<ea, mp3_path, exit_code, outcome, reports>>
        ELSE /\ Raise(p, "SynthesisError", c)
             /\ UNCHANGED files
    /\ UNCHANGED <<store, dirs, args, date_str, data, apod_data, image_url,
                   image_path, callee_data, listed, played, viewer, bg, store0,
                   files0, nFetch, nDownload, nSave, rejected, runs>>

\* The entry is replaced by one that holds the mp3 field alone.
WithMp3Replacing(dat, d, path) == Put(dat, d, Put(<<>>, "mp3", path))

\* lines 68-70: the loaded data with the mp3 field of the date's entry set
WithMp3(dat, d, path) ==
    LET dat2 == IF d \in DOMAIN dat THEN dat ELSE Put(dat, d, <<>>)
    IN Put(dat2, d, Put(dat2[d], "mp3", path))

\* lines 67-70
EnsureLoad(p) ==
    /\ pc[p] = "ea_load"
    /\ callee_data' = Upd(callee_data, p,
            WithMp3(store, date_str[p], build_mp3_path_for_image(entry(p).img)))
    /\ pc' = Upd(pc, p, "ea_save")
    /\ UNCHANGED <<shared, args, date_str, data, apod_data, image_url,
                   image_path, mp3_path, ea, result, history, runs>>

\* lines 71-73
EnsureSave(p) ==
    /\ pc[p] = "ea_save"
    /\ store' = callee_data[p]
    /\ nSave' = Upd(nSave, p, nSave[p] + 1)
    /\ Return(p, build_mp3_path_for_image(entry(p).img),
              [LastCall(p) EXCEPT !.saves = @ + 1])
    /\ UNCHANGED <<files, dirs, args, date_str, data, apod_data, image_url,
                   image_path, callee_data, listed, played, viewer, bg, store0,
                   files0, nFetch, nDownload, rejected, runs>>

----------------------------------------------------------------------------
(* The optional steps after the entry is resolved *)

\* main, lines 699-708
PlayAudio(p) ==
    /\ pc[p] = "play_audio"
    /\ IF ~args[p].play_audio THEN
            /\ pc' = Upd(pc, p, "set_bg")
            /\ UNCHANGED <<mp3_path, ea, calls, reports>>
       ELSE LET m == Get(entry(p), "mp3", None) IN
            IF m = None \/ m \notin DOMAIN files
            THEN /\ Call(p, "play", FALSE)
                 /\ Say(p, "No cached audio found")
                 /\ UNCHANGED mp3_path
            ELSE /\ mp3_path' = Upd(mp3_path, p, m)
                 /\ pc' = Upd(pc, p, "play_launch")
                 /\ UNCHANGED <<ea, calls, reports>>
    /\ UNCHANGED <<shared, args, date_str, data, apod_data, image_url,
                   image_path, callee_data, exit_code, outcome, listed,
                   played, viewer, bg, store0, files0, nFetch, nDownload, nSave, rejected,
                   runs>>

\* main, line 709, and play_audio_nonblocking: Popen starts cvlc, or raises
\* and the except clause reports it.
PlayLaunch(p) ==
    /\ pc[p] = "play_launch"
    /\ \E ok \in BOOLEAN :
        played' = Upd(played, p, IF ok THEN "launched" ELSE "failed")
    /\ pc' = Upd(pc, p, "set_bg")
    /\ UNCHANGED <<shared, frame, exit_code, outcome, reports, listed, viewer,
                   bg, history, runs>>

\* get_desktop_env: the value returned; it falls off the end (None) when
\* XDG_CURRENT_DESKTOP is not ubuntu:GNOME and pgrep finds no xfce4-session.
DesktopEnvs == {"ubuntu:GNOME", "ubuntu:xfce4", "None"}

\* main, lines 711-712, and set_background
SetBackground(p) ==
    /\ pc[p] = "set_bg"
    /\ IF ~args[p].set_bg THEN
            /\ pc' = Upd(pc, p, "view")
            /\ UNCHANGED <<exit_code, outcome, reports, bg>>
       ELSE \E de \in DesktopEnvs, ok \in BOOLEAN :
            CASE de = "None" ->
                    \* "xfce" in None raises TypeError
                    /\ Exit(p, 1, "TypeError")
                    /\ UNCHANGED <<reports, bg>>
              [] de = "ubuntu:xfce4" ->
                    \* set_xfce_background catches CalledProcessError
                    /\ pc' = Upd(pc, p, "view")
                    /\ bg' = Upd(bg, p, IF ok THEN "set" ELSE "failed")
                    /\ IF ok THEN UNCHANGED reports ELSE Say(p, "Error")
                    /\ UNCHANGED <<exit_code, outcome>>
              [] de = "ubuntu:GNOME" ->
                    \* set_gnome_background lets CalledProcessError escape
                    IF ok
                    THEN /\ pc' = Upd(pc, p, "view")
                         /\ bg' = Upd(bg, p, "set")
                         /\ UNCHANGED <<exit_code, outcome, reports>>
                    ELSE /\ Exit(p, 1, "CalledProcessError")
                         /\ bg' = Upd(bg, p, "failed")
                         /\ UNCHANGED reports
    /\ UNCHANGED <<shared, frame, listed, played, viewer, history, runs>>

\* main, lines 713-730, and view_cosmowall_layout, lines 393-397.  With no
\* viewer flag main returns; with --cosmowall --loop the cycling viewer starts
\* on main's data and date_str.
View(p) ==
    /\ pc[p] = "view"
    /\ IF args[p].show_cosmowall /\ args[p].loop
       THEN LET date_list == SortedByDate(DOMAIN data[p]) IN
            /\ viewer' = Upd(viewer, p,
                    [NoViewer EXCEPT
                        !.date_list = date_list,
                        !.current_index =
                            IF date_str[p] \in DOMAIN data[p]
                            THEN IndexOf(date_list, date_str[p]) ELSE 0,
                        !.running = TRUE])
            /\ pc' = Upd(pc, p, "loop_top")
            /\ UNCHANGED <<exit_code, outcome>>
       ELSE Exit(p, 0, "ok") /\ UNCHANGED viewer
    /\ UNCHANGED <<shared, frame, reports, listed, played, bg, history, runs>>

\* What pygame.event.get() can hold: the window is closed, a key is pressed,
\* a mouse button is pressed (1 left, 2 middle, 3 right), the mouse moves.
Events == {"QUIT", "KEYDOWN", "BUTTON1", "BUTTON2", "BUTTON3", "MOUSEMOTION"}

\* lines 399-401: date_list[current_index] and entry["img"] are there
HasEntry(v, dat) ==
    /\ v.current_index + 1 \in 1..Len(v.date_list)
    /\ "img" \in DOMAIN dat[v.date_list[v.current_index + 1]]

\* lines 397-408: the while test, the entry of the current date, rendering,
\* and pygame.event.get(); after the loop pygame.quit() at line 425, the
\* return to main and lines 725-730, where the locals of the viewer are gone
LoopTop(p) ==
    /\ pc[p] = "loop_top"
    /\ LET v == viewer[p] IN
       IF ~v.running THEN
            /\ Exit(p, 0, "ok")
            /\ viewer' = Upd(viewer, p, NoViewer)
       ELSE IF ~HasEntry(v, data[p]) THEN
            /\ Exit(p, 1, "KeyError")
            /\ viewer' = Upd(viewer, p, NoViewer)
       ELSE /\ viewer' = Upd(viewer, p,
                    [v EXCEPT !.date_str = v.date_list[v.current_index + 1]])
            /\ pc' = Upd(pc, p, "loop_events")
            /\ UNCHANGED <<exit_code, outcome>>
    /\ UNCHANGED <<shared, frame, reports, listed, played, bg, history, runs>>

\* line 414: (current_index + 1) % len(date_list)
NextIndex(i, n) == (i + 1) % n

\* The index is decremented with no wrap-around.
PrevIndexNoWrap(i, n) == i - 1

\* line 416: (current_index - 1) % len(date_list); Python's % is never
\* negative for a positive modulus.
PrevIndex(i, n) == (i - 1) % n

\* lines 418-420: entry.get("mp3") of the date the while loop drew, and the file
PlayableAudio(v, dat) ==
    LET mp3 == Get(dat[v.date_str], "mp3", None)
    IN mp3 # None /\ mp3 \in DOMAIN files

\* lines 408-423: the for loop over the events pygame.event.get() returned.
\* The list is of any length: either one more event is handled, or the list
\* is at its end and the while test comes next.
LoopEvent(p) ==
    /\ pc[p] = "loop_events"
    /\ LET v == viewer[p]
           n == Len(v.date_list)
       IN
       \/ /\ pc' = Upd(pc, p, "loop_top")
          /\ UNCHANGED viewer
       \/ \E e \in Events :
            LET w == [v EXCEPT !.last = e, !.was = v.current_index,
                               !.audio = "none"]
            IN
            /\ UNCHANGED pc
            /\ viewer' = Upd(viewer, p,
                CASE e \in {"QUIT", "KEYDOWN"} -> [w EXCEPT !.running = FALSE]
                  [] e = "BUTTON1" ->
                        [w EXCEPT !.current_index = NextIndex(v.current_index, n)]
                  [] e = "BUTTON3" ->
                        [w EXCEPT !.current_index = PrevIndex(v.current_index, n)]
                  [] e = "BUTTON2" ->
                        [w EXCEPT !.audio = IF PlayableAudio(v, data[p])
                                            THEN "played" ELSE "no_file"]
                  [] OTHER -> w)
    /\ UNCHANGED <<shared, frame, exit_code, outcome, reports, listed, played,
                   bg, history, runs>>

----------------------------------------------------------------------------
(* Specifications *)

Step(p) ==
    \/ MainEntry(p)
    \/ Fetch(p)
    \/ Download(p)
    \/ UpdateLoad(p)
    \/ UpdateSave(p)
    \/ UseEntry(p)
    \/ EnsureBegin(p)
    \/ EnsureHealLoad(p)
    \/ EnsureHealSave(p)
    \/ EnsureSynth(p)
    \/ EnsureLoad(p)
    \/ EnsureSave(p)
    \/ PlayAudio(p)
    \/ PlayLaunch(p)
    \/ SetBackground(p)
    \/ View(p)

\* One invocation at a time.
Next == Start(1) \/ Step(1)

Spec == Init /\ [][Next]_vars

\* The steps of an invocation that asks for no optional step.
StepConc(p) ==
    \/ MainEntry(p)
    \/ Fetch(p)
    \/ Download(p)
    \/ UpdateLoad(p)
    \/ UpdateSave(p)
    \/ UseEntry(p)
    \/ PlayAudio(p)
    \/ SetBackground(p)
    \/ View(p)

\* Two invocations at the same time.
NextConc == \E p \in Procs : StartConc(p) \/ StepConc(p)

SpecConc == Init /\ [][NextConc]_vars

\* The steps of an invocation with --cosmowall --loop.
StepView(p) ==
    \/ MainEntry(p)
    \/ Fetch(p)
    \/ Download(p)
    \/ UpdateLoad(p)
    \/ UpdateSave(p)
    \/ UseEntry(p)
    \/ EnsureBegin(p)
    \/ EnsureSynth(p)
    \/ EnsureLoad(p)
    \/ EnsureSave(p)
    \/ PlayAudio(p)
    \/ SetBackground(p)
    \/ View(p)
    \/ LoopTop(p)
    \/ LoopEvent(p)

\* One invocation at a time, each one with the cycling viewer.
NextView == StartView(1) \/ StepView(1)

SpecView == Init /\ [][NextView]_vars

----------------------------------------------------------------------------
(* Properties *)

\* The invocation passed the checks of lines 643-653 and loaded the store:
\* date_str is its validated date.
Resolves(p) ==
    /\ pc[p] \notin {"idle", "main"}
    /\ outcome[p] \notin {"no_api_key", "no_date", "invalid_date", "listed"}

\* ... and lines 658-683, the resolution of the date, are behind it.
ResolveEnded(p) ==
    /\ Resolves(p)
    /\ pc[p] \notin {"fetch", "download", "update_load", "update_save"}

MediaType(p) == Get(apod_data[p], "media_type", None)

\* The URL the claims name: the high-definition one when the metadata has
\* one, else the standard one.
PreferredUrl(meta) ==
    IF Get(meta, "hdurl", None) # None THEN meta.hdurl ELSE Get(meta, "url", None)

EntryFields == {"title", "explanation", "url", "img"}

\* C1: for a date that is a key of the store when the invocation starts, the
\* resolution fetches no metadata and downloads nothing, the entry it uses is
\* the stored one, and when the resolution is over the store (and the files)
\* are what they were.
C1_CachedDateIsUsedAsIs ==
    \A p \in Procs :
        (Resolves(p) /\ date_str[p] \in DOMAIN store0[p]) =>
            /\ nFetch[p] = 0
            /\ nDownload[p] = 0
            /\ entry(p) = store0[p][date_str[p]]
            /\ pc[p] = "use_entry" =>
                   store = store0[p] /\ files = files0[p] /\ nSave[p] = 0

C1_Witness ==
    \E p \in Procs : pc[p] = "use_entry" /\ date_str[p] \in DOMAIN store0[p]

\* C2 as stated: for a valid date not in the store, the resolution fetches
\* the metadata exactly once and, when the media kind is "image", downloads
\* exactly once and leaves an entry for the date in the store.
C2_Original ==
    \A p \in Procs :
        (ResolveEnded(p) /\ date_str[p] \notin DOMAIN store0[p]) =>
            /\ nFetch[p] = 1
            /\ MediaType(p) = "image" =>
                   /\ nDownload[p] = 1
                   /\ date_str[p] \in DOMAIN store
                   /\ DOMAIN store[date_str[p]] = EntryFields

\* C2 as amended: exactly one fetch; exactly one download, from the preferred
\* URL, when the media kind is "image" and the metadata has an image URL, and
\* none otherwise; and when that download succeeds the store is the old store
\* plus an entry for the date with title, explanation, url and img (the file
\* named after the basename of the downloaded URL, written whole), no mp3.
C2_UncachedDateResolved ==
    \A p \in Procs :
        (ResolveEnded(p) /\ date_str[p] \notin DOMAIN store0[p]) =>
            LET m == apod_data[p]
                d == date_str[p]
                u == PreferredUrl(m)
                wanted == MediaType(p) = "image" /\ u # None
            IN  /\ nFetch[p] = 1
                /\ ~wanted => nDownload[p] = 0 /\ store = store0[p]
                /\ wanted => nDownload[p] = 1 /\ image_url[p] = u
                /\ outcome[p] = "DownloadError" => store = store0[p]
                /\ pc[p] = "use_entry" =>
                    /\ wanted
                    /\ DOMAIN store = DOMAIN store0[p] \cup {d}
                    /\ \A k \in DOMAIN store0[p] : store[k] = store0[p][k]
                    /\ DOMAIN store[d] = EntryFields
                    /\ store[d].title = m.title
                    /\ store[d].explanation = m.explanation
                    /\ store[d].img = [dir |-> d, name |-> Basename(u)]
                    /\ store[d].img \in DOMAIN files
                    /\ files[store[d].img] = "complete"

C2_Witness ==
    \E p \in Procs :
        /\ pc[p] = "use_entry"
        /\ date_str[p] \notin DOMAIN store0[p]
        /\ "hdurl" \in DOMAIN apod_data[p]

\* C3: every entry of the store has the img path of an image that was
\* downloaded whole into the date's directory, with the title, explanation and
\* url recorded with it (no entry without img, none with an mp3 field alone),
\* and the date of every invocation that saved the store has an entry.
C3_NoPartialEntry ==
    /\ \A d \in DOMAIN store :
        /\ EntryFields \subseteq DOMAIN store[d]
        /\ store[d].img \in DOMAIN files
        /\ files[store[d].img] = "complete"
        /\ store[d].img.dir = d
    /\ \A p \in Procs :
        (Resolves(p) /\ nSave[p] >= 1) => date_str[p] \in DOMAIN store

C3_Witness ==
    \E p \in Procs :
        /\ Len(calls[p]) >= 1
        /\ calls[p][1].saves = 1
        /\ "mp3" \in DOMAIN store[date_str[p]]

\* C4: when the metadata fetched for an uncached date is not an image, the
\* invocation ends there: no download, no save, the store and the files are
\* what they were and hold nothing for the date; and an invocation for a date
\* that was rejected before and is still not in the store fetches the
\* metadata again.
C4_NotAnImage ==
    \A p \in Procs :
        /\ (apod_data[p] # <<>> /\ MediaType(p) # "image") =>
            /\ pc[p] = "done"
            /\ outcome[p] = "not_image"
            /\ nFetch[p] = 1
            /\ nDownload[p] = 0
            /\ nSave[p] = 0
            /\ store = store0[p]
            /\ files = files0[p]
            /\ date_str[p] \notin DOMAIN store
            /\ date_str[p] \in rejected
        /\ (Resolves(p) /\ date_str[p] \in rejected
                /\ date_str[p] \notin DOMAIN store0[p]) =>
            (pc[p] = "fetch" /\ nFetch[p] = 0) \/ nFetch[p] = 1

C4_Witness ==
    \E p \in Procs : pc[p] = "fetch" /\ date_str[p] \in rejected

\* C5: the store is written for a date only after download_image has written
\* the whole file: update_apod_json runs with the file complete, an invocation
\* that found no image URL or whose download failed saves nothing, and no img
\* in the store names a missing or partial file.
C5_WriteThenRegister ==
    /\ \A d \in DOMAIN store :
        "img" \in DOMAIN store[d] =>
            store[d].img \in DOMAIN files /\ files[store[d].img] = "complete"
    /\ \A p \in Procs :
        /\ pc[p] \in {"update_load", "update_save"} =>
            /\ nDownload[p] = 1
            /\ nSave[p] = 0
            /\ image_path[p] \in DOMAIN files
            /\ files[image_path[p]] = "complete"
        /\ outcome[p] \in {"no_url", "DownloadError"} =>
            nSave[p] = 0 /\ store = store0[p]

C5_Witness ==
    \E p \in Procs :
        /\ outcome[p] = "DownloadError"
        /\ SavePath(date_str[p], image_url[p]) \in DOMAIN files
        /\ files[SavePath(date_str[p], image_url[p])] = "partial"
        /\ store = store0[p]


\* C6: a save replaces the whole document by the saver's copy, the document
\* it loaded plus its own entry: what another invocation saved between that
\* load and this save is gone (last write wins over the whole document).
C6_LastWriteWins ==
    [][\A p \in Procs :
        (pc[p] = "update_save" /\ pc'[p] = "use_entry") =>
            /\ store' = callee_data[p]
            /\ \A d \in DOMAIN store \ DOMAIN callee_data[p] :
                    d \notin DOMAIN store']_vars

\* Both invocations started on the empty store, each resolved and saved its
\* own date and returned, and the store holds one date only.
C6_Witness ==
    /\ \A p \in Procs :
        /\ pc[p] = "done" /\ outcome[p] = "ok" /\ exit_code[p] = 0
        /\ store0[p] = <<>>
        /\ nSave[p] = 1
    /\ date_str[1] # date_str[2]
    /\ Cardinality(DOMAIN store) = 1

\* The calls of ensure_apod_audio an invocation made with force = False.
Unforced(p) == \A i \in 1..Len(calls[p]) : ~calls[p][i].force

SynthesisFailed(c) == c.result = "raised" /\ c.synth = 1

\* C8: when the synthesis fails the call saves nothing and, as long as no
\* later call ran, the store is what it was when the call began; under
\* --make-audio the failure is reported and the invocation goes on to the
\* steps after it, under --play-audio it ends the invocation with the error
\* and play_audio_nonblocking is not called.
C8_SynthesisFailure ==
    \A p \in Procs : \A i \in 1..Len(calls[p]) :
        LET c == calls[p][i] IN
        SynthesisFailed(c) =>
            /\ c.saves = 0
            /\ i = Len(calls[p]) => store = c.store_was
            /\ c.caller = "make" =>
                /\ "Failed to generate audio" \in reports[p]
                /\ i = Len(calls[p]) =>
                    /\ pc[p] \in {"play_audio", "play_launch", "set_bg", "view", "done"}
                    /\ outcome[p] # "SynthesisError"
            /\ c.caller = "play" =>
                /\ i = Len(calls[p])
                /\ pc[p] = "done"
                /\ exit_code[p] = 1
                /\ outcome[p] = "SynthesisError"
                /\ played[p] = "no"

\* The synthesis failed under --make-audio, the invocation went on to
\* --play-audio, and the synthesis failed there too.
C8_Witness ==
    \E p \in Procs :
        /\ Len(calls[p]) = 2
        /\ calls[p][1].caller = "make" /\ SynthesisFailed(calls[p][1])
        /\ calls[p][2].caller = "play" /\ SynthesisFailed(calls[p][2])
        /\ store = store0[p]

\* The date argument is missing or is no date.
BadDateInput(p) ==
    /\ args[p].api_key /\ ~args[p].list_cached
    /\ LET d == IF args[p].date_str = TODAY THEN Now ELSE args[p].date_str
       IN d = None \/ Strptime(d) = None

BadInput(p) == ~args[p].api_key \/ BadDateInput(p)

\* The exceptions that leave main uncaught.
Uncaught == {"HTTPError", "DownloadError", "KeyError", "RuntimeError",
             "SynthesisError", "TypeError", "CalledProcessError"}

C10_ListInCalendarOrder ==
    \A p \in Procs :
        outcome[p] = "listed" =>
            /\ exit_code[p] = 0
            /\ Len(listed[p]) = Cardinality(DOMAIN store0[p])
            /\ {listed[p][i] : i \in 1..Len(listed[p])} = DOMAIN store0[p]
            /\ \A i, j \in 1..Len(listed[p]) :
                i < j => ~DateLess(Strptime(listed[p][j]), Strptime(listed[p][i]))
            /\ (DOMAIN store0[p] = {}) <=> ("No cached APODs found" \in reports[p])
            /\ store = store0[p] /\ files = files0[p]

\* C11: set_background never ends the invocation: with a desktop that is not
\* recognized it does nothing, and a failed wallpaper command (GNOME or XFCE)
\* is reported and swallowed, so the invocation goes on to the viewers.
C11_WallpaperNeverAborts ==
    \A p \in Procs :
        args[p].set_bg =>
            /\ outcome[p] \notin {"TypeError", "CalledProcessError"}
            /\ bg[p] = "failed" =>
                /\ "Error" \in reports[p]
                /\ pc[p] = "view" \/ (pc[p] = "done" /\ outcome[p] = "ok")

\* C12: the url field of the entry a resolution wrote is the URL its img was
\* downloaded from, the high-definition URL when the metadata has one and the
\* standard URL otherwise.
C12_UrlIsDownloadSource ==
    \A p \in Procs :
        (pc[p] = "use_entry" /\ nSave[p] = 1) =>
            /\ image_url[p] = PreferredUrl(apod_data[p])
            /\ store[date_str[p]].img = SavePath(date_str[p], image_url[p])
            /\ store[date_str[p]].url = image_url[p]

\* The mp3 field is the img path with the suffix replaced by ".mp3".
Mp3FromImg(e) ==
    /\ e.mp3.dir = e.img.dir
    /\ e.mp3.name[1] = e.img.name[1]
    /\ e.mp3.name[2] = ".mp3"

\* The entry has an mp3 field.
HasMp3(dat, d) == d \in DOMAIN dat /\ "mp3" \in DOMAIN dat[d]

\* C13 as stated: an mp3 field is the entry's img path with the audio
\* extension, and an entry for which narration was requested (a call of
\* ensure_apod_audio was made for it and is over) has an mp3 field.
C13_Original ==
    /\ \A d \in DOMAIN store : HasMp3(store, d) => Mp3FromImg(store[d])
    /\ \A p \in Procs : \A i \in 1..Len(calls[p]) :
        calls[p][i].result # "running" => HasMp3(store, date_str[p])

\* C13 as amended: an mp3 field is the entry's img path with the audio
\* extension and names an audio file that exists; the entry has the field once
\* a call of ensure_apod_audio for it has returned, and an entry that had none
\* when the invocation started has none as long as no call has returned, also
\* when narration was requested and the synthesis failed.
C13_Mp3Derived ==
    /\ \A d \in DOMAIN store :
        HasMp3(store, d) =>
            /\ Mp3FromImg(store[d])
            /\ store[d].mp3 \in DOMAIN files
    /\ \A p \in Procs :
        /\ \A i \in 1..Len(calls[p]) :
            calls[p][i].result = "returned" => HasMp3(store, date_str[p])
        /\ (Resolves(p) /\ ~HasMp3(store0[p], date_str[p])
                /\ \A i \in 1..Len(calls[p]) : calls[p][i].result # "returned") =>
            ~HasMp3(store, date_str[p])
        /\ \A d \in DOMAIN store0[p] :
            HasMp3(store0[p], d) => HasMp3(store, d)

\* Narration was requested for the date and its synthesis failed: the entry
\* has no mp3 field, next to an entry that has one.
C13_Witness ==
    \E p \in Procs :
        /\ pc[p] = "done"
        /\ Len(calls[p]) >= 1 /\ SynthesisFailed(LastCall(p))
        /\ date_str[p] \in DOMAIN store /\ ~HasMp3(store, date_str[p])
        /\ \E d \in DOMAIN store : HasMp3(store, d)

\* C14: with one invocation at a time, an entry of the store stays: every
\* step keeps each date of the store with the same title, explanation, url and
\* img, whatever the invocation does (resolve of any date, ensure_apod_audio
\* with or without force, list), and the metadata is fetched and the image
\* downloaded only for a date that has no entry.
C14_ResolvedIsDurable ==
    [][/\ \A d \in DOMAIN store :
            /\ d \in DOMAIN store'
            /\ \A k \in EntryFields : store'[d][k] = store[d][k]
       /\ \A p \in Procs :
            (nFetch'[p] > nFetch[p] \/ nDownload'[p] > nDownload[p]) =>
                date_str[p] \notin DOMAIN store]_vars

\* The third invocation found its date cached next to another date, and
\* synthesized its audio again under --force-audio.
C14_Witness ==
    \E p \in Procs :
        /\ pc[p] = "done" /\ outcome[p] = "ok"
        /\ date_str[p] \in DOMAIN store0[p]
        /\ Cardinality(DOMAIN store0[p]) = 2
        /\ Len(calls[p]) = 1 /\ calls[p][1].force
        /\ calls[p][1].result = "returned" /\ calls[p][1].synth = 1
        /\ nFetch[p] = 0

\* The invocation is in the while loop of view_cosmowall_layout.
InViewer(p) == pc[p] \in {"loop_top", "loop_events"}

\* The viewer's list and index, and what the last event did to the index.
ViewerInRange(p) ==
    LET v == viewer[p]
        n == Len(v.date_list)
    IN  /\ n >= 1
        /\ n = Cardinality(DOMAIN data[p])
        /\ {v.date_list[i] : i \in 1..n} = DOMAIN data[p]
        /\ \A i, j \in 1..n :
            i < j => DateLess(Strptime(v.date_list[i]), Strptime(v.date_list[j]))
        /\ v.current_index \in 0..(n - 1)
        /\ v.last = "BUTTON1" =>
            v.current_index = IF v.was = n - 1 THEN 0 ELSE v.was + 1
        /\ v.last = "BUTTON3" =>
            v.current_index = IF v.was = 0 THEN n - 1 ELSE v.was - 1
        /\ v.last \in {"BUTTON2", "MOUSEMOTION", "QUIT", "KEYDOWN"} =>
            v.current_index = v.was
        /\ v.last \in {"QUIT", "KEYDOWN"} => ~v.running

\* One step of the viewer: the list stays, a right click that follows a left
\* click brings the index back, and once running is False it stays False and
\* the while test ends the loop.
ViewerStep(p) ==
    /\ (InViewer(p) /\ pc'[p] \in {"loop_top", "loop_events"}) =>
        /\ viewer'[p].date_list = viewer[p].date_list
        /\ ~viewer[p].running => ~viewer'[p].running
        /\ (viewer[p].last = "BUTTON1" /\ viewer'[p].last = "BUTTON3") =>
            viewer'[p].current_index = viewer[p].was
    /\ (pc[p] = "loop_top" /\ ~viewer[p].running) =>
        pc'[p] = "done" /\ exit_code'[p] = 0

\* C15: in the cycling viewer started from main, the list is the keys of
\* main's data in ascending date order and current_index stays within
\* 0..len(date_list)-1 whatever is clicked; a left click moves to the next date
\* and a right click to the previous one, wrapping at both ends, so that left
\* then right comes back to the same date; a middle click and a mouse move
\* leave the index; and a key press or a quit event ends the loop.
C15_CyclingViewer ==
    /\ [](\A p \in Procs : InViewer(p) => ViewerInRange(p))
    /\ [][\A p \in Procs : ViewerStep(p)]_vars

\* Three dates, the first one shown, and a right click wrapped to the last.
C15_Witness ==
    \E p \in Procs :
        /\ pc[p] = "loop_events"
        /\ viewer[p].date_list = <<D_FEB, D_MAR, D_OCT>>
        /\ viewer[p].last = "BUTTON3"
        /\ viewer[p].was = 0
        /\ viewer[p].current_index = 2

=============================================================================
